---- MODULE Spec2Model ----
(***************************************************************************)
(* Model of the interactive remote terminal session of the dashboard (the  *)
(* Terminal React component): one component instance, the session          *)
(* generations its lifecycle effect builds, and the deferred callbacks     *)
(* (WebSocket open/message/error/close, timers, ResizeObserver, emulator   *)
(* input) that each generation leaves behind.                              *)
(*                                                                         *)
(* A session generation s owns a WebSocket (ws[s]), an emulator (out[s],   *)
(* geom[s], disposed[s]) and its closures.  Refs and React state are       *)
(* shared by all generations of the component, as in the source.           *)
(***************************************************************************)
EXTENDS Integers, Sequences, FiniteSets, TLC

(* ------------------------------ bounds --------------------------------- *)
MaxSessions == 2      \* session generations built by one component instance
MaxRecv == 2          \* inbound payloads delivered, over all sessions
MaxSent == 2          \* outbound frames sent, over all sessions
MaxTime == 7          \* sampling intervals that elapse on the clock
MaxFits == 2          \* refit timeouts of font-size changes pending at once
MaxPieces == 5        \* pieces of location.pathname between slashes

(* ----------------------- program constants ----------------------------- *)
NormalClosure == 1000        \* the close code onclose compares with
WindowSeconds == 3           \* the sampling window, timeDiff >= 3
SamplingInterval == 500      \* ms, the period of the sampling setInterval

Sessions == 1..MaxSessions
NULL == 0                    \* a null ref

(* ------------------------------ inputs --------------------------------- *)
\* '' and undefined are both falsy in the guards; both are modelled as "".
PodNames == {"p1", "p2"}
ContainerNames == {"c1", "c2"}
NodeNames == {"n1", "n2"}
Namespaces == {"ns1", "ns2"}

\* The props the parent can pass: a pod page passes namespace, podName and
\* containers; a workload page passes namespace, pods and containers; a node
\* page passes type and nodeName.  pods and containers are lists of names;
\* an absent list is the empty one.
PodProps ==
  [type : {"pod"},
   namespace : Namespaces,
   podName : {"", "p1"},
   pods : {<<>>, <<"p1", "p2">>},
   nodeName : {""},
   containers : {<<>>, <<"c1", "c2">>}]

NodeProps ==
  [type : {"node"},
   namespace : {"ns1"},
   podName : {""},
   pods : {<<>>},
   nodeName : {""} \cup NodeNames,
   containers : {<<>>}]

PropsSet == {P \in PodProps : P.podName = "" \/ P.pods = <<>>} \cup NodeProps

NoProps ==
  [type |-> "pod", namespace |-> "ns1", podName |-> "", pods |-> <<>>,
   nodeName |-> "", containers |-> <<>>]

\* {cols, rows} pairs the fit addon can compute from the container.
Geoms == {<<80, 24>>, <<100, 30>>}

\* Text is a sequence of characters/tokens; template literals concatenate.
Data == {<<"a">>, <<"b">>}       \* payloads of inbound frames
Keys == {<<"x">>}                \* what the emulator reports as typed

\* The types of inbound frames: terminal output, status lines, and frames
\* that show nothing (pong, and ping and "unknown" as types the switch does
\* not know).
OutputTypes == {"stdout", "stderr"}
LineTypes == {"info", "connected", "error"}
SilentTypes == {"pong", "ping", "unknown"}

\* event.data of an inbound message: text that is not JSON, JSON that is not
\* an object (null, a number), or a JSON object with a type and a data field.
InPayloads ==
  {[json |-> "invalid", type |-> "", data |-> <<>>],
   [json |-> "null", type |-> "", data |-> <<>>],
   [json |-> "number", type |-> "", data |-> <<>>]}
  \cup [json : {"object"}, type : OutputTypes, data : Data]
  \cup [json : {"object"}, type : LineTypes \cup SilentTypes, data : {<<"a">>}]

\* Keys of TERMINAL_THEMES: the default and another one.
Themes == {"classic", "dark"}
\* Font sizes of the selector: the default and another one.
DefaultFontSize == 14
FontSizes == {DefaultFontSize, 20}
NoOptions == [theme |-> "", fontSize |-> 0]

\* What the page and the browser's storage give the URL of the channel:
\* window.location.protocol and host, whether the build is a development
\* build, and the 'current-cluster' item of localStorage (absent: null).
PageHost == "kite.example.com"
DevHost == "localhost:8080"
Clusters == {[present |-> TRUE, name |-> "prod"], [present |-> FALSE, name |-> ""]}
Envs ==
  [protocol : {"http:", "https:"}, isDev : BOOLEAN, host : {PageHost},
   cluster : Clusters]
ProdEnv ==
  [protocol |-> "https:", isDev |-> FALSE, host |-> PageHost,
   cluster |-> [present |-> TRUE, name |-> "prod"]]

\* Close codes a close event can carry.
CloseCodes == {1000, 1005, 1006}

ZeroSpeed == [upload |-> <<0, 1>>, download |-> <<0, 1>>]
NoTarget == [kind |-> "none", namespace |-> "", podName |-> "",
             containerName |-> "", nodeName |-> ""]

VARIABLES
  phase,               \* "init" | "mounted" | "unmounted"
  props,               \* the props of the last render
  selectedPod, selectedContainer, isConnected, networkSpeed,   \* useState
  xtermRef, fitAddonRef, wsRef, networkStatsRef,
  speedUpdateTimerRef, pingTimerRef,                            \* useRef
  initDeps, effectDeps,  \* dependency values the two effects last ran with
  cur,                 \* generation whose cleanup the lifecycle effect holds
  nsessions,           \* generations built so far
  ws,                  \* ws[s]: life of the WebSocket of generation s
  target,              \* target[s]: what the URL of ws[s] addresses, while
                       \* ws[s] is connecting or open
  closeCalls,          \* closeCalls[s]: per close() call, the codes passed
  disposed,            \* disposed[s]: number of dispose() calls on emulator s
  out,                 \* out[s]: write/writeln calls on emulator s, until
                       \* it is disposed
  lateWrites,          \* lateWrites[s]: a write reached emulator s after dispose
  lateCalls,           \* lateCalls[s]: a control (clear, options, refresh)
                       \* reached emulator s after dispose
  location,            \* location.pathname of the breadcrumb component, as
                       \* the pieces split('/') gives
  breadcrumbs,         \* what the breadcrumb component rendered, if it has
  geom,                \* geom[s]: <<cols, rows>> of emulator s, until it
                       \* is disposed
  sent,                \* sent[s]: frames passed to ws[s].send, while ws[s]
                       \* is connecting or open
  recv,                \* recv[s]: payloads delivered to onmessage of s,
                       \* until its emulator is disposed
  speedLive, pingLive, \* setInterval timers not yet cleared, by creator
  initTimer,           \* initTimer[s]: the 100 ms resize timeout is pending
  observer,            \* observer[s]: the ResizeObserver is connected
  winListener,         \* winListener[s]: window 'resize' listener attached
  viewport,            \* the geometry the container fits at the default
                       \* font size
  terminalTheme, fontSize,   \* useState: the chosen theme and font size
  termOptions,         \* termOptions[s]: options.theme and options.fontSize
                       \* of emulator s, until it is disposed
  fitTimers,           \* pending refit timeouts of font-size changes
  env,                 \* page location, build flavour and stored cluster
  url,                 \* url[s]: the URL ws[s] was constructed with, while
                       \* ws[s] is connecting or open
  now                  \* Date.now(), in ms

vars ==
  <<phase, props, selectedPod, selectedContainer, isConnected, networkSpeed,
    xtermRef, fitAddonRef, wsRef, networkStatsRef, speedUpdateTimerRef,
    pingTimerRef, initDeps, effectDeps, cur, nsessions, ws, target,
    closeCalls, disposed, out, lateWrites, geom, sent, recv, speedLive,
    pingLive, initTimer, observer, winListener, viewport, terminalTheme,
    fontSize, termOptions, fitTimers, env, url, lateCalls, location,
    breadcrumbs, now>>

\* The whole state as one record, so that a handler is a function on it.
World ==
  [phase |-> phase, props |-> props, selectedPod |-> selectedPod,
   selectedContainer |-> selectedContainer, isConnected |-> isConnected,
   networkSpeed |-> networkSpeed, xtermRef |-> xtermRef,
   fitAddonRef |-> fitAddonRef, wsRef |-> wsRef,
   networkStatsRef |-> networkStatsRef,
   speedUpdateTimerRef |-> speedUpdateTimerRef, pingTimerRef |-> pingTimerRef,
   initDeps |-> initDeps, effectDeps |-> effectDeps, cur |-> cur,
   nsessions |-> nsessions, ws |-> ws, target |-> target,
   closeCalls |-> closeCalls, disposed |-> disposed, out |-> out,
   lateWrites |-> lateWrites, geom |-> geom, sent |-> sent, recv |-> recv,
   speedLive |-> speedLive, pingLive |-> pingLive, initTimer |-> initTimer,
   observer |-> observer, winListener |-> winListener, viewport |-> viewport,
   terminalTheme |-> terminalTheme, fontSize |-> fontSize,
   termOptions |-> termOptions, fitTimers |-> fitTimers, env |-> env,
   url |-> url, lateCalls |-> lateCalls, location |-> location,
   breadcrumbs |-> breadcrumbs, now |-> now]

Apply(W) ==
  /\ phase' = W.phase
  /\ props' = W.props
  /\ selectedPod' = W.selectedPod
  /\ selectedContainer' = W.selectedContainer
  /\ isConnected' = W.isConnected
  /\ networkSpeed' = W.networkSpeed
  /\ xtermRef' = W.xtermRef
  /\ fitAddonRef' = W.fitAddonRef
  /\ wsRef' = W.wsRef
  /\ networkStatsRef' = W.networkStatsRef
  /\ speedUpdateTimerRef' = W.speedUpdateTimerRef
  /\ pingTimerRef' = W.pingTimerRef
  /\ initDeps' = W.initDeps
  /\ effectDeps' = W.effectDeps
  /\ cur' = W.cur
  /\ nsessions' = W.nsessions
  /\ ws' = W.ws
  /\ target' = W.target
  /\ closeCalls' = W.closeCalls
  /\ disposed' = W.disposed
  /\ out' = W.out
  /\ lateWrites' = W.lateWrites
  /\ geom' = W.geom
  /\ sent' = W.sent
  /\ recv' = W.recv
  /\ speedLive' = W.speedLive
  /\ pingLive' = W.pingLive
  /\ initTimer' = W.initTimer
  /\ observer' = W.observer
  /\ winListener' = W.winListener
  /\ viewport' = W.viewport
  /\ terminalTheme' = W.terminalTheme
  /\ fontSize' = W.fontSize
  /\ termOptions' = W.termOptions
  /\ fitTimers' = W.fitTimers
  /\ env' = W.env
  /\ url' = W.url
  /\ lateCalls' = W.lateCalls
  /\ location' = W.location
  /\ breadcrumbs' = W.breadcrumbs
  /\ now' = W.now

\* The state after construction, on a page and build described by e.
InitIn(e) ==
  /\ env = e
  /\ url = [s \in Sessions |-> <<>>]
  /\ phase = "init"
  /\ props = NoProps
  /\ selectedPod = ""
  /\ selectedContainer = ""
  /\ isConnected = FALSE
  /\ networkSpeed = ZeroSpeed
  /\ xtermRef = NULL
  /\ fitAddonRef = NULL
  /\ wsRef = NULL
  /\ networkStatsRef = [lastReset |-> 0, bytesReceived |-> 0, bytesSent |-> 0]
  /\ speedUpdateTimerRef = NULL
  /\ pingTimerRef = NULL
  /\ initDeps = <<>>
  /\ effectDeps = <<>>
  /\ cur = NULL
  /\ nsessions = 0
  /\ ws = [s \in Sessions |-> "NONE"]
  /\ target = [s \in Sessions |-> NoTarget]
  /\ closeCalls = [s \in Sessions |-> <<>>]
  /\ disposed = [s \in Sessions |-> 0]
  /\ out = [s \in Sessions |-> <<>>]
  /\ lateWrites = [s \in Sessions |-> FALSE]
  /\ lateCalls = [s \in Sessions |-> FALSE]
  /\ geom = [s \in Sessions |-> <<0, 0>>]
  /\ sent = [s \in Sessions |-> <<>>]
  /\ recv = [s \in Sessions |-> <<>>]
  /\ speedLive = {}
  /\ pingLive = {}
  /\ initTimer = [s \in Sessions |-> FALSE]
  /\ observer = [s \in Sessions |-> FALSE]
  /\ winListener = [s \in Sessions |-> FALSE]
  /\ viewport = <<80, 24>>
  /\ terminalTheme = "classic"
  /\ fontSize = DefaultFontSize
  /\ termOptions = [s \in Sessions |-> NoOptions]
  /\ fitTimers = 0
  /\ now = 0

\* The breadcrumb component has not rendered.
NotRendered == [rendered |-> FALSE, items |-> <<>>]
NoPage == location = <<>> /\ breadcrumbs = NotRendered

Init == InitIn(ProdEnv) /\ NoPage


(* --------------------- WebSocket and emulator -------------------------- *)
\* ws[s] is "NONE" before construction, then CONNECTING, OPEN, CLOSING (close()
\* called on an open socket, or the closing handshake running), ABORTING
\* (close() called while connecting), FAILED (error event dispatched, close
\* event still to come) and CLOSED (close event dispatched).
readyState(life) ==
  CASE life = "CONNECTING" -> "CONNECTING"
    [] life = "OPEN" -> "OPEN"
    [] life \in {"CLOSING", "ABORTING"} -> "CLOSING"
    [] OTHER -> "CLOSED"

\* What a channel addressed and carried is kept while it is connecting or
\* open, and dropped with the connection.
Retire(W, s) ==
  [W EXCEPT !.target[s] = NoTarget, !.sent[s] = <<>>, !.url[s] = <<>>]

\* websocket.close(): no code is passed; a socket already closing or closed
\* ignores the call.
close(life) ==
  CASE life = "CONNECTING" -> "ABORTING"
    [] life = "OPEN" -> "CLOSING"
    [] OTHER -> life

\* close() as the effect and its cleanup call it on generation s: with no
\* arguments, so the set of close codes passed is empty.
CloseChannel(W, s) ==
  Retire([W EXCEPT !.ws[s] = close(@), !.closeCalls[s] = Append(@, {})], s)

\* terminal.dispose() on generation s: the emulator's buffer, geometry and
\* options go, and with them the record of what its session received.
DisposeTerminal(W, s) ==
  [W EXCEPT !.disposed[s] = @ + 1, !.out[s] = <<>>, !.recv[s] = <<>>,
            !.geom[s] = <<0, 0>>, !.termOptions[s] = NoOptions]

\* fitAddon.fit(): the cols and rows that fit the container at a font size.
Fit(v, size) ==
  <<(v[1] * DefaultFontSize) \div size, (v[2] * DefaultFontSize) \div size>>

\* terminal.write / terminal.writeln from a handler of generation s.
TermCall(W, s, fn, text) ==
  IF W.disposed[s] > 0
    THEN [W EXCEPT !.lateWrites[s] = TRUE]
    ELSE [W EXCEPT !.out[s] = Append(@, [fn |-> fn, arg |-> text])]

\* A React state setter: a no-op once the component has unmounted.
SetIsConnected(W, v) ==
  IF W.phase = "mounted" THEN [W EXCEPT !.isConnected = v] ELSE W

SetNetworkSpeed(W, v) ==
  IF W.phase = "mounted" THEN [W EXCEPT !.networkSpeed = v] ELSE W

\* clearInterval(ref.current) of a non-null ref.
ClearSpeedTimer(W) ==
  IF W.speedUpdateTimerRef # NULL
    THEN [W EXCEPT !.speedLive = @ \ {W.speedUpdateTimerRef}] ELSE W

ClearPingTimer(W) ==
  IF W.pingTimerRef # NULL
    THEN [W EXCEPT !.pingLive = @ \ {W.pingTimerRef}] ELSE W

(* ------------------------- lifecycle effect ---------------------------- *)
\* The guards at the head of the lifecycle effect.
GuardsPass(P, sp, sc) ==
  /\ P.type = "pod" =>
       /\ ~(Len(P.pods) = 0 /\ sp = "")
       /\ sc # ""
  /\ ~(P.type = "node" /\ P.nodeName = "")

\* What the URL built at setup addresses.
UrlTarget(P, sp, sc) ==
  IF P.type = "pod"
    THEN [kind |-> "pod", namespace |-> P.namespace, podName |-> sp,
          containerName |-> sc, nodeName |-> ""]
    ELSE [kind |-> "node", namespace |-> "", podName |-> "",
          containerName |-> "", nodeName |-> P.nodeName]

\* A URL that always uses the page host.
wsUrl_PageHost(E, P, sp, sc) ==
  LET protocol == IF E.protocol = "https:" THEN "wss:" ELSE "ws:"
      host == E.host
      currentCluster == IF E.cluster.present THEN E.cluster.name ELSE "null"
  IN  IF P.type = "pod"
        THEN <<protocol, "//", host, "/api/v1/terminal/", P.namespace, "/", sp,
               "/ws?container=", sc, "&x-cluster-name=", currentCluster>>
        ELSE <<protocol, "//", host, "/api/v1/node-terminal/", P.nodeName,
               "/ws?x-cluster-name=", currentCluster>>

\* The template literal wsUrl, as the sequence of its pieces; a null
\* cluster is interpolated as the text null.
wsUrl(E, P, sp, sc) ==
  LET protocol == IF E.protocol = "https:" THEN "wss:" ELSE "ws:"
      host == IF E.isDev THEN DevHost ELSE E.host
      currentCluster == IF E.cluster.present THEN E.cluster.name ELSE "null"
  IN  IF P.type = "pod"
        THEN <<protocol, "//", host, "/api/v1/terminal/", P.namespace, "/", sp,
               "/ws?container=", sc, "&x-cluster-name=", currentCluster>>
        ELSE <<protocol, "//", host, "/api/v1/node-terminal/", P.nodeName,
               "/ws?x-cluster-name=", currentCluster>>

\* A cleanup that forgets websocket.close().
Cleanup_NoClose(W, s) ==
  LET W1 == [W EXCEPT !.winListener[s] = FALSE, !.observer[s] = FALSE]
      W2 == DisposeTerminal(W1, s)
  IN  ClearPingTimer(ClearSpeedTimer(W2))

\* The function the effect returns, for generation s.
Cleanup(W, s) ==
  LET W1 == [W EXCEPT !.winListener[s] = FALSE, !.observer[s] = FALSE]
      W2 == DisposeTerminal(W1, s)
      W3 == CloseChannel(W2, s)
  IN  ClearPingTimer(ClearSpeedTimer(W3))

\* The effect body after its guards: dispose/close what the refs hold, then
\* build emulator, socket, handlers, timeout and observer of generation n.
Build(W, P, sp, sc) ==
  LET W1 == IF W.xtermRef # NULL THEN DisposeTerminal(W, W.xtermRef) ELSE W
      W2 == IF W1.wsRef # NULL THEN CloseChannel(W1, W1.wsRef) ELSE W1
      n == W.nsessions + 1
      W3 == [W2 EXCEPT !.nsessions = n,
                       !.termOptions[n] =
                          [theme |-> W.terminalTheme, fontSize |-> W.fontSize],
                       !.geom[n] = Fit(W.viewport, W.fontSize),
                       !.xtermRef = n,
                       !.fitAddonRef = n,
                       !.winListener[n] = TRUE,
                       !.target[n] = UrlTarget(P, sp, sc),
                       !.url[n] = wsUrl(W.env, P, sp, sc),
                       !.ws[n] = "CONNECTING",
                       !.wsRef = n,
                       !.initTimer[n] = TRUE,
                       !.observer[n] = TRUE,
                       !.cur = n]
  IN  SetIsConnected(W3, FALSE)

Setup(W, P, sp, sc) ==
  IF ~GuardsPass(P, sp, sc) THEN [W EXCEPT !.cur = NULL]
  ELSE IF W.nsessions >= MaxSessions
    THEN [W EXCEPT !.nsessions = MaxSessions + 1]   \* beyond the bound
    ELSE Build(W, P, sp, sc)

EffectDepsOf(P, sp, sc) == <<sp, sc, P.namespace, P.type>>

\* One run of the lifecycle effect after a render with props P and state
\* sp, sc: nothing when its dependencies are unchanged, else the previous
\* cleanup (if one was returned) followed by the effect body.
LifecycleEffect(W, P, sp, sc) ==
  IF EffectDepsOf(P, sp, sc) = W.effectDeps THEN W
  ELSE LET W1 == IF W.cur # NULL THEN Cleanup(W, W.cur) ELSE W
       IN  Setup([W1 EXCEPT !.effectDeps = EffectDepsOf(P, sp, sc)], P, sp, sc)

InitDepsOf(P) == <<P.podName, P.pods, P.containers>>

\* The first effect: the selection it sets when its dependencies changed.
InitialPod(P) ==
  IF P.podName # "" THEN P.podName
  ELSE IF Len(P.pods) > 0 THEN P.pods[1] ELSE ""

InitialContainer(P) == IF Len(P.containers) > 0 THEN P.containers[1] ELSE ""

\* A render with props P and selection sp, sc, and the effects it flushes.
\* The first effect runs when podName, pods or containers changed: in
\* content, in identity (fresh: the parent passed new arrays), or because an
\* absent containers prop defaults to a new [] on every render.  Both
\* effects see the state of that render; the state the first effect sets
\* causes a second render, whose flush runs the lifecycle effect again.
CommitWith(W, P, sp, sc, fresh) ==
  LET runInit == InitDepsOf(P) # W.initDeps \/ Len(P.containers) = 0 \/ fresh
      W1 == LifecycleEffect(
              [W EXCEPT !.props = P, !.selectedPod = sp,
                        !.selectedContainer = sc, !.initDeps = InitDepsOf(P)],
              P, sp, sc)
      sp2 == IF runInit THEN InitialPod(P) ELSE sp
      sc2 == IF runInit THEN InitialContainer(P) ELSE sc
  IN  IF <<sp2, sc2>> = <<sp, sc>> THEN W1
      ELSE LifecycleEffect(
             [W1 EXCEPT !.selectedPod = sp2, !.selectedContainer = sc2],
             P, sp2, sc2)

Commit(W, P, sp, sc) == CommitWith(W, P, sp, sc, FALSE)

WithinBounds(W) == W.nsessions <= MaxSessions

(* ---------------------- component-level actions ------------------------ *)
Mount ==
  /\ phase = "init"
  /\ \E P \in PropsSet :
       LET W == Commit([World EXCEPT !.phase = "mounted"], P, "", "")
       IN  WithinBounds(W) /\ Apply(W)

\* The parent re-renders the component with other props.
PropsChange ==
  /\ phase = "mounted"
  /\ \E P \in PropsSet \ {props} :
       LET W == Commit(World, P, selectedPod, selectedContainer)
       IN  WithinBounds(W) /\ Apply(W)

\* The parent re-renders with the same names in newly built pods and
\* containers arrays.
ParentRerender ==
  /\ phase = "mounted"
  /\ Len(props.pods) > 0 \/ Len(props.containers) > 0
  /\ LET W == CommitWith(World, props, selectedPod, selectedContainer, TRUE)
     IN  WithinBounds(W) /\ Apply(W)

\* The pod selector emits a pod name, or nothing.
handlePodChange ==
  /\ phase = "mounted"
  /\ Len(props.pods) > 0                \* the selector is rendered
  /\ \E name \in {""} \cup PodNames :
       LET W == Commit(World, props, name, selectedContainer)
       IN  WithinBounds(W) /\ Apply(W)

\* The container selector emits a container name, or nothing.
handleContainerChange ==
  /\ phase = "mounted"
  /\ Len(props.containers) > 1          \* the selector is rendered
  /\ \E name \in {""} \cup ContainerNames :
       LET W == Commit(World, props,
                       selectedPod, IF name # "" THEN name ELSE selectedContainer)
       IN  WithinBounds(W) /\ Apply(W)

Unmount ==
  /\ phase = "mounted"
  /\ LET W1 == IF cur # NULL THEN Cleanup(World, cur) ELSE World
     IN  Apply([W1 EXCEPT !.phase = "unmounted", !.cur = NULL])

(* --------------------------- look and feel ----------------------------- *)
\* xtermRef.current.options.<key> = value: on the emulator the ref holds, if
\* that one is still there.
SetOption(W, key, value) ==
  IF W.xtermRef = NULL THEN W
  ELSE IF W.disposed[W.xtermRef] = 0
    THEN [W EXCEPT !.termOptions[W.xtermRef][key] = value]
    ELSE [W EXCEPT !.lateCalls[W.xtermRef] = TRUE]

\* The clear button: xtermRef.current.clear(), on whatever the ref holds.
clearTerminal ==
  /\ phase = "mounted"
  /\ xtermRef # NULL
  /\ Apply(IF disposed[xtermRef] = 0
             THEN [World EXCEPT !.out[xtermRef] = <<>>]
             ELSE [World EXCEPT !.lateCalls[xtermRef] = TRUE])

\* A theme handler that builds the session anew.
handleThemeChange_Rebuild(theme) ==
  /\ phase = "mounted"
  /\ LET W1 == [World EXCEPT !.terminalTheme = theme, !.effectDeps = <<>>]
         W == Commit(W1, props, selectedPod, selectedContainer)
     IN  WithinBounds(W) /\ Apply(W)

\* The theme selector, or the cycle button, chooses a theme.
handleThemeChange(theme) ==
  /\ phase = "mounted"
  /\ LET W1 == SetOption([World EXCEPT !.terminalTheme = theme], "theme", theme)
         W == Commit(W1, props, selectedPod, selectedContainer)
     IN  WithinBounds(W) /\ Apply(W)

\* The font-size selector chooses a size: the option is set at once and the
\* refit is left to a 100 ms timeout.
handleFontSizeChange(size) ==
  /\ phase = "mounted"
  /\ LET W1 == [World EXCEPT !.fontSize = size]
         W2 == IF xtermRef # NULL /\ fitAddonRef # NULL
                 THEN [SetOption(W1, "fontSize", size) EXCEPT !.fitTimers = @ + 1]
                 ELSE W1
         W == Commit(W2, props, selectedPod, selectedContainer)
     IN  W.fitTimers <= MaxFits /\ WithinBounds(W) /\ Apply(W)

\* A refit timeout fires: fitAddonRef.current.fit(), which does nothing on
\* a disposed emulator.
FitTimerFire ==
  /\ fitTimers > 0
  /\ LET W1 == [World EXCEPT !.fitTimers = @ - 1]
         f == fitAddonRef
     IN  Apply(IF f # NULL /\ disposed[f] = 0
                 THEN [W1 EXCEPT !.geom[f] = Fit(viewport, termOptions[f].fontSize)]
                 ELSE W1)


(* ------------------------- traffic accounting -------------------------- *)
\* updateNetworkStats(dataSize, isOutgoing)
updateNetworkStats(W, dataSize, isOutgoing) ==
  IF isOutgoing
    THEN [W EXCEPT !.networkStatsRef.bytesSent = @ + dataSize]
    ELSE [W EXCEPT !.networkStatsRef.bytesReceived = @ + dataSize]

Digits(n) == IF n < 10 THEN 1 ELSE IF n < 100 THEN 2 ELSE 3

\* new Blob([text]).size of an inbound payload, by its JSON text.
InSize(p) ==
  CASE p.json = "invalid" -> 8                       \* not json
    [] p.json = "null" -> 4                          \* null
    [] p.json = "number" -> 2                        \* 42
    [] OTHER -> 21 + Len(p.type) + Len(p.data)       \* {"type":"t","data":"d"}

\* JSON.stringify of an outbound frame, and its Blob size.
StdinFrame(d) == [type |-> "stdin", data |-> d]
ResizeFrame(g) == [type |-> "resize", cols |-> g[1], rows |-> g[2]]
PingFrame == [type |-> "ping"]

OutSize(f) ==
  CASE f.type = "stdin" -> 26 + Len(f.data)
    [] f.type = "resize" -> 33 + Digits(f.cols) + Digits(f.rows)
    [] OTHER -> 15

\* websocket.send(message) followed by updateNetworkStats(size, true)
Send(W, s, f) ==
  updateNetworkStats([W EXCEPT !.sent[s] = Append(@, f)], OutSize(f), TRUE)

(* ------------------------- channel handlers ---------------------------- *)
Sgr(code, text) == <<code>> \o text \o <<"ESC[0m">>
Green == "ESC[32m"
Blue == "ESC[34m"
Red == "ESC[31m"

OnOpen(W, s) ==
  LET W1 == SetIsConnected(W, TRUE)
      W2 == [W1 EXCEPT !.networkStatsRef =
               [lastReset |-> W.now, bytesReceived |-> 0, bytesSent |-> 0]]
      W3 == SetNetworkSpeed(W2, ZeroSpeed)
      W4 == [ClearSpeedTimer(W3) EXCEPT !.speedLive = @ \cup {s},
                                        !.speedUpdateTimerRef = s]
      W5 == [ClearPingTimer(W4) EXCEPT !.pingLive = @ \cup {s},
                                       !.pingTimerRef = s]
      W6 == TermCall(W5, s, "writeln",
                     Sgr(Green, <<"Connected to ", W.target[s].kind,
                                  " terminal!">>))
  IN  TermCall(W6, s, "writeln", <<>>)

\* A switch that has no case for stderr.
OnFrame_NoStderr(W, s, p) ==
  CASE p.type = "stdout" -> TermCall(W, s, "write", p.data)
    [] p.type = "info" -> TermCall(W, s, "writeln", Sgr(Blue, p.data))
    [] p.type = "connected" -> TermCall(W, s, "writeln", Sgr(Green, p.data))
    [] p.type = "error" ->
         SetIsConnected(
           TermCall(W, s, "writeln", Sgr(Red, <<"Error: ">> \o p.data)), FALSE)
    [] OTHER -> W

\* A switch whose default case writes the payload.
OnFrame_ShowsUnknown(W, s, p) ==
  CASE p.type \in {"stdout", "stderr"} -> TermCall(W, s, "write", p.data)
    [] p.type = "info" -> TermCall(W, s, "writeln", Sgr(Blue, p.data))
    [] p.type = "connected" -> TermCall(W, s, "writeln", Sgr(Green, p.data))
    [] p.type = "error" ->
         SetIsConnected(
           TermCall(W, s, "writeln", Sgr(Red, <<"Error: ">> \o p.data)), FALSE)
    [] p.type = "pong" -> W
    [] OTHER -> TermCall(W, s, "write", p.data)

\* The switch on message.type, for a payload that parsed to an object.
OnFrame(W, s, p) ==
  CASE p.type \in {"stdout", "stderr"} -> TermCall(W, s, "write", p.data)
    [] p.type = "info" -> TermCall(W, s, "writeln", Sgr(Blue, p.data))
    [] p.type = "connected" -> TermCall(W, s, "writeln", Sgr(Green, p.data))
    [] p.type = "error" ->
         SetIsConnected(
           TermCall(W, s, "writeln", Sgr(Red, <<"Error: ">> \o p.data)), FALSE)
    [] OTHER -> W

\* JSON.parse throws on text that is not JSON, before anything is counted;
\* reading .type of null throws after the size was counted; a number has no
\* type.  Both throws are caught and logged.
OnMessage(W, s, p) ==
  IF p.json = "invalid" THEN W
  ELSE LET W1 == updateNetworkStats(W, InSize(p), FALSE)
       IN  IF p.json = "object" THEN OnFrame(W1, s, p) ELSE W1

OnError(W, s) ==
  SetIsConnected(
    TermCall(W, s, "writeln", Sgr(Red, <<"WebSocket connection error">>)),
    FALSE)

\* An onclose that leaves the sampling timer and the readings alone.
OnClose_KeepSampling(W, s, code) ==
  LET W1 == SetIsConnected(W, FALSE)
      W3 == [ClearPingTimer(W1) EXCEPT !.pingTimerRef = NULL]
  IN  IF code # NormalClosure
        THEN TermCall(W3, s, "writeln",
                      Sgr(Red, <<"Connection closed unexpectedly">>))
        ELSE TermCall(W3, s, "writeln", Sgr(Green, <<"Connection closed">>))

\* An onclose that writes the error line for every code.
OnClose_AlwaysRed(W, s, code) ==
  LET W1 == SetNetworkSpeed(SetIsConnected(W, FALSE), ZeroSpeed)
      W2 == [ClearSpeedTimer(W1) EXCEPT !.speedUpdateTimerRef = NULL]
      W3 == [ClearPingTimer(W2) EXCEPT !.pingTimerRef = NULL]
  IN  TermCall(W3, s, "writeln", Sgr(Red, <<"Connection closed unexpectedly">>))

OnClose(W, s, code) ==
  LET W1 == SetNetworkSpeed(SetIsConnected(W, FALSE), ZeroSpeed)
      W2 == [ClearSpeedTimer(W1) EXCEPT !.speedUpdateTimerRef = NULL]
      W3 == [ClearPingTimer(W2) EXCEPT !.pingTimerRef = NULL]
  IN  IF code # NormalClosure
        THEN TermCall(W3, s, "writeln",
                      Sgr(Red, <<"Connection closed unexpectedly">>))
        ELSE TermCall(W3, s, "writeln", Sgr(Green, <<"Connection closed">>))

(* ----------------- emulator, observer and timer callbacks -------------- *)
OnData(W, s, d) ==
  IF readyState(W.ws[s]) = "OPEN" THEN Send(W, s, StdinFrame(d)) ELSE W

\* A resize handler that does not look at readyState.
handleTerminalResize_NoGuard(W, s) ==
  IF W.fitAddonRef # NULL
    THEN Send(W, s, ResizeFrame(W.geom[s])) ELSE W

handleTerminalResize(W, s) ==
  IF W.fitAddonRef # NULL /\ readyState(W.ws[s]) = "OPEN"
    THEN Send(W, s, ResizeFrame(W.geom[s])) ELSE W

PingCallback(W, s) ==
  IF readyState(W.ws[s]) = "OPEN" THEN Send(W, s, PingFrame) ELSE W

\* A sampling callback that restarts the window only after more than 3 s.
SpeedCallback_LateReset(W) ==
  LET stats == W.networkStatsRef
      ms == W.now - stats.lastReset
  IN  IF ms > 0
        THEN LET W1 == SetNetworkSpeed(W,
                         [upload |-> <<stats.bytesSent, ms>>,
                          download |-> <<stats.bytesReceived, ms>>])
             IN  IF ms > WindowSeconds * 1000
                   THEN [W1 EXCEPT !.networkStatsRef =
                           [lastReset |-> W.now, bytesReceived |-> 0,
                            bytesSent |-> 0]]
                   ELSE W1
        ELSE W

\* timeDiff = (now - lastReset) / 1000 is kept in ms, and a rate
\* bytes / timeDiff as the pair <<bytes, ms>>.
SpeedCallback(W) ==
  LET stats == W.networkStatsRef
      ms == W.now - stats.lastReset
  IN  IF ms > 0
        THEN LET W1 == SetNetworkSpeed(W,
                         [upload |-> <<stats.bytesSent, ms>>,
                          download |-> <<stats.bytesReceived, ms>>])
             IN  IF ms >= WindowSeconds * 1000
                   THEN [W1 EXCEPT !.networkStatsRef =
                           [lastReset |-> W.now, bytesReceived |-> 0,
                            bytesSent |-> 0]]
                   ELSE W1
        ELSE W

RECURSIVE SumLen(_, _)
SumLen(f, S) ==
  IF S = {} THEN 0
  ELSE LET x == CHOOSE y \in S : TRUE IN Len(f[x]) + SumLen(f, S \ {x})

SentWithin(W) == SumLen(W.sent, Sessions) <= MaxSent

(* ------------------------------ events --------------------------------- *)
WsOpen(s) ==
  /\ ws[s] = "CONNECTING"
  /\ Apply(OnOpen([World EXCEPT !.ws[s] = "OPEN"], s))

WsMessage(s, p) ==
  /\ ws[s] = "OPEN"
  /\ SumLen(recv, Sessions) < MaxRecv
  /\ Apply(OnMessage([World EXCEPT !.recv[s] = Append(@, p)], s, p))

\* The connection fails: the error event, with the close event to follow.
WsError(s) ==
  /\ ws[s] \in {"CONNECTING", "OPEN", "CLOSING", "ABORTING"}
  /\ Apply(OnError(Retire([World EXCEPT !.ws[s] = "FAILED"], s), s))

\* The close event: of a failed connection (1006), or of a closing handshake
\* started by either side.
WsClose(s, code) ==
  /\ \/ ws[s] = "FAILED" /\ code = 1006
     \/ ws[s] \in {"OPEN", "CLOSING"} /\ code \in {1000, 1005}
  /\ Apply(OnClose(Retire([World EXCEPT !.ws[s] = "CLOSED"], s), s, code))

\* A key typed into the emulator of generation s.
UserInput(s, d) ==
  /\ ws[s] # "NONE" /\ disposed[s] = 0
  /\ LET W == OnData(World, s, d) IN SentWithin(W) /\ Apply(W)

\* The setTimeout(() => handleTerminalResize(), 100) of generation s fires.
InitTimerFire(s) ==
  /\ initTimer[s]
  /\ LET W == handleTerminalResize([World EXCEPT !.initTimer[s] = FALSE], s)
     IN  SentWithin(W) /\ Apply(W)

\* The ResizeObserver of generation s reports the element's size.
ObserverFire(s) ==
  /\ observer[s]
  /\ LET W == handleTerminalResize(World, s) IN SentWithin(W) /\ Apply(W)

\* The window is resized: handleResize refits the emulator that listens.
WindowResize(g) ==
  /\ g # viewport
  /\ Apply([World EXCEPT !.viewport = g,
                         !.geom = [s \in Sessions |->
                                     IF winListener[s]
                                       THEN Fit(g, termOptions[s].fontSize)
                                       ELSE @[s]]])

\* One sampling interval passes and the sampling timer of generation s,
\* the only one pending, fires.
SpeedTick(s) ==
  /\ speedLive = {s}
  /\ now < MaxTime * SamplingInterval
  /\ Apply(SpeedCallback([World EXCEPT !.now = @ + SamplingInterval]))

PingTick(s) ==
  /\ s \in pingLive
  /\ LET W == PingCallback(World, s) IN SentWithin(W) /\ Apply(W)

\* One sampling interval passes with no sampling timer pending.
Advance ==
  /\ speedLive = {}
  /\ now < MaxTime * SamplingInterval
  /\ now' = now + SamplingInterval
  /\ UNCHANGED <<phase, props, selectedPod, selectedContainer, isConnected,
                 networkSpeed, xtermRef, fitAddonRef, wsRef, networkStatsRef,
                 speedUpdateTimerRef, pingTimerRef, initDeps, effectDeps, cur,
                 nsessions, ws, target, closeCalls, disposed, out, lateWrites,
                 geom, sent, recv, speedLive, pingLive, initTimer, observer,
                 winListener, viewport, terminalTheme, fontSize, termOptions,
                 fitTimers, env, url, lateCalls, location, breadcrumbs>>

(* ---------------------------- breadcrumbs ------------------------------ *)
\* A string is the sequence of its pieces: "/" and names without a slash.
\* href is a string, or undefined: the empty sequence.
NoHref == <<>>

\* The names a path piece can be: nothing (between two slashes), the CRD
\* root, a resource with a label, and a name without one.
PieceNames == {"", "crds", "pods", "a"}

RECURSIVE PathsUpTo(_)
PathsUpTo(n) ==
  IF n = 0 THEN {<<>>}
  ELSE LET shorter == PathsUpTo(n - 1)
       IN  shorter \cup {Append(p, x) : p \in {q \in shorter : Len(q) = n - 1},
                                        x \in PieceNames}

Pathnames == PathsUpTo(MaxPieces)

\* filter(Boolean) on the pieces
IsTruthy(x) == x # ""

resourceLabels ==
  [k \in {"pods", "deployments", "services", "configmaps", "secrets",
          "ingresses", "gateways", "httproutes", "jobs", "daemonsets",
          "statefulsets", "namespaces", "pvcs", "crds", "crs"} |->
     CASE k = "pods" -> "Pods"
       [] k = "deployments" -> "Deployments"
       [] k = "services" -> "Services"
       [] k = "configmaps" -> "ConfigMaps"
       [] k = "secrets" -> "Secrets"
       [] k = "ingresses" -> "Ingresses"
       [] k = "gateways" -> "Gateways"
       [] k = "httproutes" -> "HTTPRoutes"
       [] k = "jobs" -> "Jobs"
       [] k = "daemonsets" -> "DaemonSets"
       [] k = "statefulsets" -> "StatefulSets"
       [] k = "namespaces" -> "Namespaces"
       [] k = "pvcs" -> "PVCs"
       [] k = "crds" -> "CRDs"
       [] OTHER -> "Custom Resources"]

createBreadcrumb(label, href) ==
  [label |-> IF label \in DOMAIN resourceLabels THEN resourceLabels[label]
             ELSE label,
   href |-> href]

\* segs.join('/')
RECURSIVE Join(_)
Join(segs) ==
  IF Len(segs) = 0 THEN <<>>
  ELSE IF Len(segs) = 1 THEN segs
  ELSE <<Head(segs), "/">> \o Join(Tail(segs))

\* A getSafeLink without the namespace rule of regular resources.
getSafeLink_NoNamespace(pathSegments, index) ==
  IF index = Len(pathSegments) - 1 THEN NoHref
  ELSE IF pathSegments[1] = "crds"
    THEN CASE index = 0 -> <<"/", "crds">>
           [] index = 1 -> <<"/", "crds", "/", pathSegments[2]>>
           [] index = 2 -> <<"/", "crds", "/", pathSegments[2]>>
           [] OTHER -> NoHref
    ELSE <<"/">> \o Join(SubSeq(pathSegments, 1, index + 1))

\* getSafeLink(index), with the index of the source (from 0); pathSegments
\* is indexed from 1 here.
getSafeLink(pathSegments, index) ==
  IF index = Len(pathSegments) - 1 THEN NoHref
  ELSE IF pathSegments[1] = "crds"
    THEN CASE index = 0 -> <<"/", "crds">>
           [] index = 1 -> <<"/", "crds", "/", pathSegments[2]>>
           [] index = 2 -> <<"/", "crds", "/", pathSegments[2]>>
           [] OTHER -> NoHref
    ELSE IF Len(pathSegments) = 3 /\ index = 1
           THEN <<"/", pathSegments[1]>>
           ELSE <<"/">> \o Join(SubSeq(pathSegments, 1, index + 1))

generateBreadcrumbs(pieces) ==
  LET pathSegments == SelectSeq(pieces, IsTruthy)
  IN  [i \in 1..Len(pathSegments) |->
         createBreadcrumb(pathSegments[i], getSafeLink(pathSegments, i - 1))]

\* The breadcrumb component renders the path it is on.
RenderBreadcrumbs ==
  /\ ~breadcrumbs.rendered
  /\ Apply([World EXCEPT !.breadcrumbs =
               [rendered |-> TRUE, items |-> generateBreadcrumbs(location)]])

Next ==
  \/ Mount
  \/ PropsChange
  \/ ParentRerender
  \/ handlePodChange
  \/ handleContainerChange
  \/ Unmount
  \/ \E s \in Sessions : WsOpen(s)
  \/ \E s \in Sessions, p \in InPayloads : WsMessage(s, p)
  \/ \E s \in Sessions : WsError(s)
  \/ \E s \in Sessions, code \in CloseCodes : WsClose(s, code)
  \/ \E s \in Sessions, d \in Keys : UserInput(s, d)
  \/ \E s \in Sessions : InitTimerFire(s)
  \/ \E s \in Sessions : ObserverFire(s)
  \/ \E g \in Geoms : WindowResize(g)
  \/ \E s \in Sessions : SpeedTick(s)
  \/ \E s \in Sessions : PingTick(s)
  \/ \E theme \in Themes : handleThemeChange(theme)
  \/ \E size \in FontSizes : handleFontSizeChange(size)
  \/ FitTimerFire
  \/ clearTerminal
  \/ RenderBreadcrumbs
  \/ Advance

Spec == Init /\ [][Next]_vars


(* ----------------------- focused specifications ------------------------ *)
\* Lifecycle: target changes, selections, unmount and the channel's
\* open/error/close events, with no traffic.
LifeNext ==
  \/ Mount
  \/ PropsChange
  \/ ParentRerender
  \/ handlePodChange
  \/ handleContainerChange
  \/ Unmount
  \/ \E s \in Sessions : WsOpen(s)
  \/ \E s \in Sessions : WsError(s)
  \/ \E s \in Sessions, code \in CloseCodes : WsClose(s, code)

SpecLife == Init /\ [][LifeNext]_vars

\* Addressing: the lifecycle on every page protocol, build flavour and
\* stored cluster.
InitUrl == NoPage /\ \E e \in Envs : InitIn(e)

UrlNext ==
  \/ Mount
  \/ PropsChange
  \/ handlePodChange
  \/ handleContainerChange
  \/ Unmount
  \/ \E s \in Sessions : WsOpen(s)
  \/ \E s \in Sessions, code \in CloseCodes : WsClose(s, code)

SpecUrl == InitUrl /\ [][UrlNext]_vars

\* Breadcrumbs: the breadcrumb component on any path, rendering once.
InitCrumbs ==
  /\ InitIn(ProdEnv)
  /\ location \in Pathnames
  /\ breadcrumbs = NotRendered

CrumbsNext == RenderBreadcrumbs

SpecCrumbs == InitCrumbs /\ [][CrumbsNext]_vars

\* Controls: the lifecycle with the clear button and the theme selector.
ControlNext ==
  \/ Mount
  \/ PropsChange
  \/ handlePodChange
  \/ handleContainerChange
  \/ Unmount
  \/ \E s \in Sessions : WsOpen(s)
  \/ \E s \in Sessions : WsError(s)
  \/ \E s \in Sessions, code \in CloseCodes : WsClose(s, code)
  \/ \E theme \in Themes : handleThemeChange(theme)
  \/ clearTerminal

SpecControl == Init /\ [][ControlNext]_vars

\* The page of one pod with two containers.
OnePod ==
  [type |-> "pod", namespace |-> "ns1", podName |-> "p1", pods |-> <<>>,
   nodeName |-> "", containers |-> <<"c1", "c2">>]

\* Outbound traffic: one pod page, a container switch, and every source of
\* outbound frames.
OutNext ==
  \/ Mount /\ props' = OnePod
  \/ handleContainerChange
  \/ Unmount
  \/ \E s \in Sessions : WsOpen(s)
  \/ \E s \in Sessions : WsError(s)
  \/ \E s \in Sessions, code \in CloseCodes : WsClose(s, code)
  \/ \E s \in Sessions, d \in Keys : UserInput(s, d)
  \/ \E s \in Sessions : InitTimerFire(s)
  \/ \E s \in Sessions : ObserverFire(s)
  \/ \E g \in Geoms : WindowResize(g)
  \/ \E s \in Sessions : PingTick(s)

SpecOut == Init /\ [][OutNext]_vars

\* Inbound traffic: one pod page, a container switch, and every payload.
InNext ==
  \/ Mount /\ props' = OnePod
  \/ handleContainerChange
  \/ Unmount
  \/ \E s \in Sessions : WsOpen(s)
  \/ \E s \in Sessions, p \in InPayloads : WsMessage(s, p)
  \/ \E s \in Sessions : WsError(s)
  \/ \E s \in Sessions, code \in CloseCodes : WsClose(s, code)

SpecIn == Init /\ [][InNext]_vars

\* The payloads of the throughput specification: text that is not JSON,
\* JSON null, an output frame and a pong.
RatePayloads ==
  {p \in InPayloads :
     \/ p.json \in {"invalid", "null"}
     \/ p.type \in {"stdout", "pong"} /\ p.data = <<"a">>}

\* Throughput: one session on a pod page, the clock with the sampling
\* timer, and traffic in both directions.
RateNext ==
  \/ Mount /\ props' = OnePod
  \/ Unmount
  \/ \E s \in Sessions : WsOpen(s)
  \/ \E s \in Sessions, p \in RatePayloads : WsMessage(s, p)
  \/ \E s \in Sessions, code \in CloseCodes : WsClose(s, code)
  \/ \E s \in Sessions, d \in Keys : UserInput(s, d)
  \/ \E s \in Sessions : SpeedTick(s)
  \/ Advance

SpecRate == Init /\ [][RateNext]_vars

\* The payloads of the keepalive specification: the frames that show
\* nothing, and an output frame.
KeepPayloads ==
  {p \in InPayloads :
     p.type \in SilentTypes \/ (p.type = "stdout" /\ p.data = <<"a">>)}

\* Keepalive: one pod page, a container switch, every source of outbound
\* frames, and pong, ping, unknown and output frames coming in.
KeepNext ==
  \/ Mount /\ props' = OnePod
  \/ handleContainerChange
  \/ Unmount
  \/ \E s \in Sessions : WsOpen(s)
  \/ \E s \in Sessions, p \in KeepPayloads : WsMessage(s, p)
  \/ \E s \in Sessions : WsError(s)
  \/ \E s \in Sessions, code \in CloseCodes : WsClose(s, code)
  \/ \E s \in Sessions, d \in Keys : UserInput(s, d)
  \/ \E s \in Sessions : ObserverFire(s)
  \/ \E s \in Sessions : PingTick(s)

SpecKeep == Init /\ [][KeepNext]_vars

\* The page of one node.
OneNode ==
  [type |-> "node", namespace |-> "ns1", podName |-> "", pods |-> <<>>,
   nodeName |-> "n1", containers |-> <<>>]

\* Look and feel: a pod page or a node page, a container switch, the
\* channel's events, theme and font-size changes with their refit, and the
\* resize frames the observer sends.
LookNext ==
  \/ Mount /\ props' \in {OnePod, OneNode}
  \/ handleContainerChange
  \/ Unmount
  \/ \E s \in Sessions : WsOpen(s)
  \/ \E s \in Sessions : WsError(s)
  \/ \E s \in Sessions, code \in CloseCodes : WsClose(s, code)
  \/ \E theme \in Themes : handleThemeChange(theme)
  \/ \E size \in FontSizes : handleFontSizeChange(size)
  \/ FitTimerFire
  \/ \E s \in Sessions : ObserverFire(s)

SpecLook == Init /\ [][LookNext]_vars

\* Going idle: one pod page, a container switch, the channel's events, the
\* clock with the sampling timer, and typed input as traffic.
IdleNext ==
  \/ Mount /\ props' = OnePod
  \/ handleContainerChange
  \/ Unmount
  \/ \E s \in Sessions : WsOpen(s)
  \/ \E s \in Sessions : WsError(s)
  \/ \E s \in Sessions, code \in CloseCodes : WsClose(s, code)
  \/ \E s \in Sessions, d \in Keys : UserInput(s, d)
  \/ \E s \in Sessions : SpeedTick(s)
  \/ Advance

SpecIdle == Init /\ [][IdleNext]_vars


(* ------------------------------ claims --------------------------------- *)
Built(s) == ws[s] # "NONE"
LiveChannel(s) == ws[s] \in {"CONNECTING", "OPEN"}
LiveEmulator(s) == Built(s) /\ disposed[s] = 0

\* C1: every live channel (constructed, neither closed nor asked to close)
\* and every live emulator (created, not disposed) belongs to the generation
\* the lifecycle effect currently holds: there is at most one of each, none
\* is left behind by a rebuild or an unmount, and a generation is only built
\* once the earlier ones are closed and disposed.
C1_OneLiveSession ==
  \A s \in Sessions : (LiveChannel(s) \/ LiveEmulator(s)) => s = cur

\* A rebuilt session: generation 1 was torn down while its channel was live,
\* generation 2 is live.
C1_Witness ==
  /\ cur = 2 /\ LiveChannel(2) /\ LiveEmulator(2)
  /\ closeCalls[1] # <<>> /\ disposed[1] > 0

\* A channel event of a generation that is no longer the current one.
LateChannelEvent(s) ==
  /\ cur # NULL /\ cur' = cur /\ s # cur
  /\ ws'[s] # ws[s]

\* C2: a callback of a torn-down session leaves the state of the session
\* built after it as it was: connection indicator, throughput readings,
\* traffic counters, keepalive and sampling timers.
C2_StaleCallbacksInert ==
  [][\A s \in Sessions :
       LateChannelEvent(s) =>
         UNCHANGED <<isConnected, networkSpeed, networkStatsRef, speedLive,
                     pingLive>>]_vars

\* C3: an open channel addresses the target currently selected.
C3_OpenChannelAddressesTarget ==
  \A s \in Sessions :
    ws[s] = "OPEN" =>
      /\ phase = "mounted"
      /\ target[s] = UrlTarget(props, selectedPod, selectedContainer)

\* C4: a target switch while connected (the component stays mounted and
\* the open session stops being the current one) closes the previous channel
\* exactly once, with the normal-closure code, disposes the previous
\* emulator exactly once, and makes at most one new connection attempt.
C4_OneTeardown ==
  [][(cur # NULL /\ ws[cur] = "OPEN" /\ cur' # cur /\ phase' = "mounted") =>
       /\ closeCalls'[cur] = << {NormalClosure} >>
       /\ disposed'[cur] = 1
       /\ nsessions' <= nsessions + 1]_vars

\* C5: a frame is handed to a channel only while that channel is open, one
\* frame per event; an event that finds the channel not open leaves nothing
\* behind that is sent later (the open event itself sends nothing).
C5_SendOnlyWhenOpen ==
  [][\A s \in Sessions :
       (sent'[s] # sent[s] /\ sent'[s] # <<>>) =>
         /\ ws[s] = "OPEN" /\ ws'[s] = "OPEN"
         /\ Len(sent'[s]) = Len(sent[s]) + 1
         /\ SubSeq(sent'[s], 1, Len(sent[s])) = sent[s]]_vars

\* The initial resize timeout fired while the channel was connecting and was
\* dropped; the channel has opened since and nothing was sent.
C5_Witness ==
  \E s \in Sessions : ws[s] = "OPEN" /\ ~initTimer[s] /\ sent[s] = <<>>

\* C6: every connection attempt addresses a pod with a non-empty pod and
\* container identifier, or a node with a non-empty node identifier.
C6_ConnectOnlyResolved ==
  \A s \in Sessions :
    LiveChannel(s) =>
      /\ target[s].kind = "pod" =>
           target[s].podName # "" /\ target[s].containerName # ""
      /\ target[s].kind = "node" => target[s].nodeName # ""

IsResize(f) == f.type = "resize"

\* C7: no two consecutive resize frames of a session carry the same pair.
C7_ResizeOncePerPair ==
  \A s \in Sessions :
    LET r == SelectSeq(sent[s], IsResize)
    IN  \A i \in 1..(Len(r) - 1) : r[i] # r[i + 1]

\* C8: once the channel of a session is open and its initial resize timeout
\* has run, the session has sent a resize frame.
C8_InitialResizeSent ==
  \A s \in Sessions :
    (ws[s] = "OPEN" /\ ~initTimer[s]) =>
      \E i \in 1..Len(sent[s]) : IsResize(sent[s][i])

RECURSIVE Concat(_)
Concat(q) == IF q = <<>> THEN <<>> ELSE Head(q) \o Concat(Tail(q))

Args(q) == [i \in 1..Len(q) |-> q[i].arg]
Payloads(q) == [i \in 1..Len(q) |-> q[i].data]

IsWrite(op) == op.fn = "write"
IsOutputFrame(p) == p.json = "object" /\ p.type \in {"stdout", "stderr"}
IsLineFrame(p) ==
  p.json = "object" /\ p.type \in {"info", "connected", "error"}
IsRendered(p) == IsOutputFrame(p) \/ IsLineFrame(p)

\* The status lines the handlers write on their own account.
LocalLines ==
  {<<>>,
   <<Green, "Connected to ", "pod", " terminal!", "ESC[0m">>,
   <<Green, "Connected to ", "node", " terminal!", "ESC[0m">>,
   <<Red, "WebSocket connection error", "ESC[0m">>,
   <<Red, "Connection closed unexpectedly", "ESC[0m">>,
   <<Green, "Connection closed", "ESC[0m">>}

IsFrameOp(op) == ~(op.fn = "writeln" /\ op.arg \in LocalLines)

\* What the wire protocol says an inbound frame shows.
Rendering(p) ==
  CASE p.type \in {"stdout", "stderr"} -> [fn |-> "write", arg |-> p.data]
    [] p.type = "info" ->
         [fn |-> "writeln", arg |-> <<"ESC[34m">> \o p.data \o <<"ESC[0m">>]
    [] p.type = "connected" ->
         [fn |-> "writeln", arg |-> <<"ESC[32m">> \o p.data \o <<"ESC[0m">>]
    [] OTHER ->
         [fn |-> "writeln",
          arg |-> <<"ESC[31m", "Error: ">> \o p.data \o <<"ESC[0m">>]

\* C9: what the stdout/stderr frames of a session wrote to its emulator is
\* the concatenation of their payloads in arrival order, and the lines of
\* its info/connected/error frames sit between them at their arrival
\* position.
C9_OutputIsConcatenation ==
  \A s \in Sessions :
    /\ Concat(Args(SelectSeq(out[s], IsWrite)))
         = Concat(Payloads(SelectSeq(recv[s], IsOutputFrame)))
    /\ LET ops == SelectSeq(out[s], IsFrameOp)
           frames == SelectSeq(recv[s], IsRendered)
       IN  ops = [i \in 1..Len(frames) |-> Rendering(frames[i])]

\* Two output frames with different payloads, stderr among them, arrived at
\* one session.
C9_Witness ==
  \E s \in Sessions :
    /\ Len(SelectSeq(recv[s], IsOutputFrame)) >= 2
    /\ \E i, j \in 1..Len(recv[s]) :
         /\ i < j /\ IsOutputFrame(recv[s][i]) /\ IsOutputFrame(recv[s][j])
         /\ recv[s][i].data # recv[s][j].data
         /\ recv[s][j].type = "stderr"

\* C10: the delivery of a payload that is not a frame record changes
\* nothing but the record of its arrival.
C10_MalformedInert ==
  [][\A s \in Sessions :
       (recv'[s] # recv[s] /\ recv'[s][Len(recv'[s])].json # "object") =>
         UNCHANGED <<isConnected, networkSpeed, networkStatsRef, out,
                     lateWrites, ws, speedLive, pingLive,
                     speedUpdateTimerRef, pingTimerRef, sent>>]_vars

\* The line onclose writes for a close code, as the claim states it.
CloseLine(code) ==
  IF code = 1000
    THEN <<"ESC[32m", "Connection closed", "ESC[0m">>
    ELSE <<"ESC[31m", "Connection closed unexpectedly", "ESC[0m">>

\* C11: the close event of a channel whose emulator is there writes one line
\* chosen by the close code alone, green "closed" for 1000 and red "closed
\* unexpectedly" for every other code, whatever the session went through
\* before; after every close event the connection indicator of the mounted
\* component shows disconnected.
C11_CloseLineByCode ==
  [][\A s \in Sessions, code \in CloseCodes :
       WsClose(s, code) =>
         /\ disposed[s] = 0 =>
              out'[s] = Append(out[s], [fn |-> "writeln", arg |-> CloseLine(code)])
         /\ phase' = "mounted" => ~isConnected']_vars

\* A channel that was open has closed with code 1000 and its emulator shows
\* the green line; the indicator shows disconnected.
C11_Witness ==
  \E s \in Sessions :
    /\ ws[s] = "CLOSED" /\ disposed[s] = 0 /\ ~isConnected
    /\ Len(out[s]) >= 3
    /\ out[s][Len(out[s])] = [fn |-> "writeln", arg |-> CloseLine(1000)]

\* A colored status line: a writeln that starts with a color sequence.
IsStatusLine(op) ==
  op.fn = "writeln" /\ Len(op.arg) > 0 /\ op.arg[1] \in {Green, Blue, Red}

StatusLines(q) == SelectSeq(q, IsStatusLine)

\* C12: a connect (open event), a disconnect (close event) or an error
\* (transport failure) of a session whose emulator is there adds exactly one
\* colored status line and sets the connection indicator; the close event
\* that follows a transport failure belongs to the transition the error line
\* was written for and adds none.
C12_OneLinePerTransition ==
  [][\A s \in Sessions :
       (ws'[s] # ws[s] /\ ws'[s] \in {"OPEN", "FAILED", "CLOSED"}
          /\ disposed'[s] = 0) =>
         /\ Len(StatusLines(out'[s]))
              = Len(StatusLines(out[s])) + (IF ws[s] = "FAILED" THEN 0 ELSE 1)
         /\ phase' = "mounted" => isConnected' = (ws'[s] = "OPEN")]_vars

ChannelCloses(s) == ws[s] # "CLOSED" /\ ws'[s] = "CLOSED"
ChannelOpens(s) == ws[s] = "CONNECTING" /\ ws'[s] = "OPEN"

\* C13: the close event of a channel sets the throughput readings of the
\* mounted component to zero and leaves no sampling timer pending; from then
\* on no sampling timer is created and the readings stay zero until a
\* channel opens.
C13_RatesZeroWhenIdle ==
  [][/\ \A s \in Sessions :
          (ChannelCloses(s) /\ phase = "mounted") =>
            networkSpeed' = ZeroSpeed /\ speedLive' = {}
     /\ (speedLive = {} /\ ~\E s \in Sessions : ChannelOpens(s)) =>
          /\ speedLive' = {}
          /\ networkSpeed' \in {networkSpeed, ZeroSpeed}]_vars

\* Frames were counted on a channel that has closed since; time has passed
\* and the readings are zero.
C13_Witness ==
  \E s \in Sessions :
    /\ phase = "mounted" /\ ws[s] = "CLOSED" /\ disposed[s] = 0
    /\ networkStatsRef.bytesSent > 0
    /\ now - networkStatsRef.lastReset >= 2 * SamplingInterval
    /\ networkSpeed = ZeroSpeed

\* The session state the component shows: Idle without a session, Connected
\* while the indicator is on, Connecting while the current channel is, and
\* Closed otherwise.
SessionStateOf(ph, c, conn, w) ==
  IF ph # "mounted" \/ c = NULL THEN "Idle"
  ELSE IF conn THEN "Connected"
  ELSE IF w[c] = "CONNECTING" THEN "Connecting"
  ELSE "Closed"

SessionState == SessionStateOf(phase, cur, isConnected, ws)

\* The selection the lifecycle effect depends on changes, or the component
\* mounts or unmounts.
TargetChanges == effectDeps' # effectDeps \/ phase' # phase

\* C14: the session state changes only on a target change, mount or
\* unmount, from Connecting to Connected on the open event of the current
\* channel, and to Closed on the close or failure of the current channel (a
\* failed attempt is let through as well); a connection attempt is made only
\* on a target change or mount.
C14_StateMachine ==
  [][/\ SessionStateOf(phase', cur', isConnected', ws') # SessionState =>
          \/ TargetChanges
          \/ /\ SessionState = "Connecting"
             /\ SessionStateOf(phase', cur', isConnected', ws') = "Connected"
             /\ ChannelOpens(cur)
          \/ /\ SessionState \in {"Connecting", "Connected"}
             /\ SessionStateOf(phase', cur', isConnected', ws') = "Closed"
             /\ ws'[cur] # ws[cur] /\ ws'[cur] \in {"FAILED", "CLOSED"}
     /\ nsessions' # nsessions => TargetChanges]_vars

\* A generation that was built and is no longer the one the effect holds:
\* its cleanup has run.
TornDown(s) == Built(s) /\ s # cur

\* C15: a torn-down session has no timer pending (sampling, keepalive,
\* initial resize) and no observer or listener attached.
C15_TeardownCancelsAll ==
  \A s \in Sessions :
    TornDown(s) =>
      /\ s \notin speedLive /\ s \notin pingLive /\ ~initTimer[s]
      /\ ~observer[s] /\ ~winListener[s]

\* The keepalive timers: at most one is pending, it belongs to the current
\* session, and the timer of a closed channel is not pending.
KeepaliveTimersOwned ==
  /\ Cardinality(pingLive) <= 1
  /\ \A s \in pingLive : s = cur /\ ws[s] # "CLOSED"

\* An open channel of the mounted component has its keepalive timer pending.
KeepaliveRuns ==
  \A s \in Sessions : (phase = "mounted" /\ ws[s] = "OPEN") => s \in pingLive

IsPing(f) == f.type = "ping"

\* C16: each firing of the keepalive timer of an open channel sends one ping
\* and a firing that finds the channel not open sends none; an open channel
\* has its keepalive timer pending, a closed one has not, and there is at
\* most one keepalive timer, that of the current session.
C16_Keepalive ==
  [][/\ \A s \in Sessions :
          Len(SelectSeq(sent'[s], IsPing)) > Len(SelectSeq(sent[s], IsPing)) =>
            /\ ws[s] = "OPEN" /\ s \in pingLive
            /\ sent'[s] = Append(sent[s], PingFrame)
     /\ KeepaliveTimersOwned'
     /\ KeepaliveRuns']_vars

\* A frame was handed to the channel of s / a payload was delivered to s.
Sends(s) == sent'[s] # sent[s] /\ sent'[s] # <<>>
Receives(s) == recv'[s] # recv[s] /\ recv'[s] # <<>>
\* The window restarts: at a channel's open, or at a tick that moves its start.
WindowResets ==
  \/ \E s \in Sessions : ChannelOpens(s)
  \/ networkStatsRef'.lastReset # networkStatsRef.lastReset

\* A well-formed inbound frame: a JSON object.
IsFrame(p) == p.json = "object"

\* Every send adds the size of its frame to the upload counter, once.
UploadCounted ==
  /\ \A s \in Sessions :
       Sends(s) =>
         networkStatsRef'.bytesSent
           = networkStatsRef.bytesSent + OutSize(sent'[s][Len(sent'[s])])
  /\ ((\A s \in Sessions : ~Sends(s)) /\ ~WindowResets) =>
       networkStatsRef'.bytesSent = networkStatsRef.bytesSent

\* Every well-formed inbound frame adds its size to the download counter,
\* and nothing else does.
DownloadCounted ==
  /\ \A s \in Sessions :
       Receives(s) =>
         LET p == recv'[s][Len(recv'[s])]
         IN  networkStatsRef'.bytesReceived
               = networkStatsRef.bytesReceived + (IF IsFrame(p) THEN InSize(p) ELSE 0)
  /\ ((\A s \in Sessions : ~Receives(s)) /\ ~WindowResets) =>
       networkStatsRef'.bytesReceived = networkStatsRef.bytesReceived

\* A sampling tick of the mounted component publishes the counters over the
\* time since the window started.
SamplePublished ==
  (now' # now /\ speedLive # {} /\ phase = "mounted") =>
    networkSpeed' =
      [upload |-> <<networkStatsRef.bytesSent, now' - networkStatsRef.lastReset>>,
       download |-> <<networkStatsRef.bytesReceived,
                      now' - networkStatsRef.lastReset>>]

\* C17: the counters of the window hold the sizes of the frames sent and of
\* the well-formed frames received since the window started, each counted
\* once, and every sampling tick publishes them over the elapsed window time.
C17_RatesAreWindowSums ==
  [][UploadCounted /\ DownloadCounted /\ SamplePublished]_vars

\* A sampling timer fires: an interval passes with a timer pending.
SamplingTick == now' # now /\ speedLive # {}

FreshWindow(t) == [lastReset |-> t, bytesReceived |-> 0, bytesSent |-> 0]

\* C18: a sampling tick restarts the window (start and both counters) when
\* the window is 3 seconds old or older and leaves it alone when it is
\* younger; the reading of the restarting tick is taken from the counters
\* before they are zeroed; a channel's open restarts the window; nothing
\* else moves the window start or lowers a counter; and at a tick the window
\* is never older than 3 seconds plus one sampling interval.
C18_WindowReset ==
  [][LET age == now' - networkStatsRef.lastReset
     IN  /\ (SamplingTick /\ age >= 3000) =>
               /\ networkStatsRef' = FreshWindow(now')
               /\ phase = "mounted" =>
                    networkSpeed' =
                      [upload |-> <<networkStatsRef.bytesSent, age>>,
                       download |-> <<networkStatsRef.bytesReceived, age>>]
         /\ (SamplingTick /\ age < 3000) => networkStatsRef' = networkStatsRef
         /\ SamplingTick => age <= 3000 + SamplingInterval
         /\ \A s \in Sessions :
              ChannelOpens(s) => networkStatsRef' = FreshWindow(now)
         /\ (\/ networkStatsRef'.lastReset # networkStatsRef.lastReset
             \/ networkStatsRef'.bytesSent < networkStatsRef.bytesSent
             \/ networkStatsRef'.bytesReceived < networkStatsRef.bytesReceived) =>
              \/ SamplingTick /\ age >= 3000
              \/ \E s \in Sessions : ChannelOpens(s)]_vars

\* A tick has just restarted a window in which bytes were sent: the reading
\* covers the whole 3 seconds and the counters are zero again.
C18_Witness ==
  /\ phase = "mounted" /\ speedLive # {}
  /\ networkStatsRef = FreshWindow(now)
  /\ networkSpeed.upload[1] > 0 /\ networkSpeed.upload[2] = 3000

\* A frame the emulator is not to show: pong, ping, or a type not of the
\* protocol.
IsSilentFrame(p) == IsFrame(p) /\ ~IsRendered(p)

\* C19: the delivery of a pong frame, or of a frame of type ping or of an
\* unknown type, writes nothing to the emulator, sends nothing, and leaves
\* the connection indicator, the readings, the channel and every timer as
\* they were; only the download counter grows, by the size of the frame.
\* The frames the client sends are stdin, resize and ping frames, never a
\* pong.
C19_PongIsSilent ==
  [][/\ \A s \in Sessions :
          (Receives(s) /\ IsSilentFrame(recv'[s][Len(recv'[s])])) =>
            /\ UNCHANGED <<out, lateWrites, sent, isConnected, networkSpeed, ws,
                           speedLive, pingLive, speedUpdateTimerRef,
                           pingTimerRef, initTimer, observer>>
            /\ networkStatsRef' =
                 [networkStatsRef EXCEPT
                    !.bytesReceived = @ + InSize(recv'[s][Len(recv'[s])])]
     /\ \A s \in Sessions : \A i \in 1..Len(sent'[s]) :
          sent'[s][i].type \in {"stdin", "resize", "ping"}]_vars

\* An open session has sent a ping and received a pong and a frame of an
\* unknown type; its emulator shows the two lines of the open event only.
C19_Witness ==
  \E s \in Sessions :
    /\ ws[s] = "OPEN" /\ disposed[s] = 0 /\ isConnected
    /\ \E i \in 1..Len(sent[s]) : IsPing(sent[s][i])
    /\ \E i, j \in 1..Len(recv[s]) :
         recv[s][i].type = "pong" /\ recv[s][j].type = "unknown"
    /\ Len(out[s]) = 2

\* C20: a change of the theme or of the font size leaves the session as it
\* was (no teardown, no connection attempt; channel, emulator instance,
\* connection state, timers, observers and rendered output unchanged) and
\* reaches the emulator of the current session as an option; a font-size
\* change with an emulator in place schedules a refit, and the refit sets
\* the emulator's geometry to what fits the container at the new size.
C20_LiveLookUpdate ==
  [][/\ (terminalTheme' # terminalTheme \/ fontSize' # fontSize) =>
          /\ UNCHANGED <<cur, nsessions, ws, target, closeCalls, disposed, out,
                         lateWrites, sent, recv, isConnected, networkSpeed,
                         networkStatsRef, speedLive, pingLive,
                         speedUpdateTimerRef, pingTimerRef, initTimer, observer,
                         winListener, xtermRef, fitAddonRef, wsRef, geom,
                         selectedPod, selectedContainer, effectDeps>>
          /\ cur # NULL =>
               termOptions'[cur] = [theme |-> terminalTheme', fontSize |-> fontSize']
          /\ (fontSize' # fontSize /\ cur # NULL) => fitTimers' = fitTimers + 1
     /\ (fitTimers' < fitTimers /\ cur # NULL) =>
          geom'[cur] = Fit(viewport, fontSize)]_vars

\* The first session is open and nothing was built since; theme and font
\* size are not the ones it was created with, and the refit has run.
C20_Witness ==
  /\ nsessions = 1 /\ cur = 1 /\ ws[1] = "OPEN" /\ isConnected
  /\ terminalTheme # "classic" /\ fontSize # DefaultFontSize
  /\ termOptions[1] = [theme |-> terminalTheme, fontSize |-> fontSize]
  /\ fitTimers = 0 /\ geom[1] = Fit(viewport, fontSize) /\ geom[1] # viewport

\* The URL the interface description gives for a target, on a page with
\* protocol pr and host h, in a development build or not, for cluster c.
SchemeOf(pr) == IF pr = "https:" THEN "wss:" ELSE "ws:"
HostOf(dev, h) == IF dev THEN "localhost:8080" ELSE h

PodUrl(pr, dev, h, ns, pod, container, c) ==
  <<SchemeOf(pr), "//", HostOf(dev, h), "/api/v1/terminal/", ns, "/", pod,
    "/ws?container=", container, "&x-cluster-name=", c>>

NodeUrl(pr, dev, h, node, c) ==
  <<SchemeOf(pr), "//", HostOf(dev, h), "/api/v1/node-terminal/", node,
    "/ws?x-cluster-name=", c>>

\* C21: with an active cluster stored, the URL of the channel a setup
\* leaves as the current one is the pod URL or the node URL of the
\* interface description, for the page's protocol and host, the build
\* flavour, the stored cluster, and the namespace, pod, container or node of
\* the selection the component holds after that setup.
C21_UrlOfTarget ==
  [][(nsessions' > nsessions /\ cur' # NULL /\ env.cluster.present) =>
       url'[cur'] =
         IF props'.type = "pod"
           THEN PodUrl(env.protocol, env.isDev, env.host, props'.namespace,
                       selectedPod', selectedContainer', env.cluster.name)
           ELSE NodeUrl(env.protocol, env.isDev, env.host, props'.nodeName,
                        env.cluster.name)]_vars

\* A development build on a secure page has connected to a pod, and the
\* channel is open.
C21_Witness ==
  \E s \in Sessions :
    /\ env.isDev /\ env.protocol = "https:" /\ env.cluster.present
    /\ ws[s] = "OPEN"
    /\ url[s] = <<"wss:", "//", "localhost:8080", "/api/v1/terminal/", "ns1",
                  "/", "p1", "/ws?container=", "c1", "&x-cluster-name=", "prod">>

\* C22: no write, writeln, clear, option change or refresh reaches an
\* emulator that has been disposed.
C22_NoUseAfterDispose ==
  \A s \in Sessions : ~lateWrites[s] /\ ~lateCalls[s]

\* C23: while the channel of the current session is open, the sampling
\* timer and the keepalive timer that session created are pending.
C23_TimersWhileOpen ==
  (phase = "mounted" /\ cur # NULL /\ ws[cur] = "OPEN") =>
    cur \in speedLive /\ cur \in pingLive

CurrentChannelOpen == cur # NULL /\ ws[cur] = "OPEN"

\* C24: the connection indicator of the mounted component is on exactly
\* when the channel of the current session is open.
C24_IndicatorMatchesChannel ==
  phase = "mounted" => (isConnected <=> CurrentChannelOpen)

\* The link to the prefix of a path that ends at its i-th segment.
PrefixLink(segs, i) ==
  [k \in 1..(2 * i) |-> IF k % 2 = 1 THEN "/" ELSE segs[k \div 2]]

\* C25: the breadcrumbs rendered for a path are one per non-empty piece, in
\* path order; the last has no link; on a path that does not start with
\* crds every other one links to the prefix ending at its segment, except
\* the middle one of a three-segment path, which links to /{segment 0}; on
\* a path that starts with crds the breadcrumbs 1 and 2 (counted from 0)
\* link to /crds/{segment 1} and those after 2 have no link.
C25_Breadcrumbs ==
  breadcrumbs.rendered =>
    LET segs == SelectSeq(location, IsTruthy)
        b == breadcrumbs.items
        n == Len(segs)
    IN  /\ Len(b) = n
        /\ \A i \in 1..n :
             /\ b[i].label =
                  (CASE segs[i] = "pods" -> "Pods"
                     [] segs[i] = "crds" -> "CRDs"
                     [] OTHER -> segs[i])
             /\ i = n => b[i].href = NoHref
             /\ (i < n /\ segs[1] # "crds") =>
                  b[i].href = IF n = 3 /\ i = 2 THEN <<"/", segs[1]>>
                              ELSE PrefixLink(segs, i)
             /\ (i < n /\ segs[1] = "crds" /\ i \in {2, 3}) =>
                  b[i].href = <<"/", "crds", "/", segs[2]>>
             /\ (i < n /\ segs[1] = "crds" /\ i > 3) => b[i].href = NoHref

\* A path of three segments with empty pieces around them was rendered: the
\* namespace breadcrumb links to the resource list.
C25_Witness ==
  /\ breadcrumbs.rendered
  /\ location = <<"", "pods", "", "a", "a">>
  /\ breadcrumbs.items[2].href = <<"/", "pods">>
  /\ breadcrumbs.items[1].href = <<"/", "pods">>
  /\ breadcrumbs.items[3].href = NoHref

====
